---- MODULE Spec2Model ----
(***************************************************************************)
(* grater_expectations: initialize_project.py                              *)
(*                                                                         *)
(* main_program loads testing_config.yml, validates the global and the     *)
(* project section, and then materialises a project directory: template    *)
(* tree copy, project_config.yml, great_expectations.yml, the ECR build    *)
(* script, the Terraform variable files and the provider.tf files, and the *)
(* tutorial overlay.                                                       *)
(*                                                                         *)
(* Conventions of the model                                                *)
(*  - a YAML value is a record [t, s]: t = "str" with the text s, or       *)
(*    t = "none" (YAML null, Python None) with s = "";                     *)
(*  - a config (a Python dict) is a function from key names to values;     *)
(*    its items() order is the order of KeyOrder;                          *)
(*  - a path is a sequence of names below the working directory; the       *)
(*    filesystem is a function from the existing paths to entries          *)
(*    [kind |-> "dir"], [kind |-> "file", lines |-> text lines] or         *)
(*    [kind |-> "file", yaml |-> mapping];                                 *)
(*  - a raised exception is a record in err, and the run stops at          *)
(*    pc = "failed".                                                       *)
(***************************************************************************)
EXTENDS Naturals, Sequences, FiniteSets, TLC

VARIABLES
    pc,            \* position of main_program
    args_project,  \* args.project
    cfg_all,       \* the parsed testing_config.yml
    cfg_global,    \* cfg_all["global"] once loaded
    cfg,           \* cfg_all[args.project] once loaded
    fs,            \* the working directory: path -> entry
    fs0,           \* the working directory as it was when the run started
    bootstrap,     \* the tree under bootstrap_files/ (read only)
    response,      \* what the user types at the overwrite prompt
    prompted,      \* how many times input() was called
    todo,          \* os.listdir(tf_dir) entries the provider loop has yet to visit
    log,           \* logger records, in order
    err            \* the exception that ended the run, or NoError

vars == <<pc, args_project, cfg_all, cfg_global, cfg, fs, fs0, bootstrap,
          response, prompted, todo, log, err>>

(***************************************************************************)
(* Bounds of the model                                                     *)
(***************************************************************************)
\* at most this many required keys of a drawn config deviate from a valid one
MaxDefects == 2

(***************************************************************************)
(* Values and configs                                                      *)
(***************************************************************************)
Str(s) == [t |-> "str", s |-> s]
None == [t |-> "none", s |-> ""]

\* Python truthiness of a YAML scalar: None and "" are falsy
Falsy(v) == v.t = "none" \/ v.s = ""

\* str(value) as an f-string renders it
Format(v) == IF v.t = "none" THEN "None" ELSE v.s

Range(seq) == {seq[i] : i \in 1..Len(seq)}

global_keys == <<"account_id", "region">>

project_keys ==
    <<"store_bucket", "store_bucket_prefix", "site_bucket", "site_bucket_prefix",
      "docker_image_name", "site_name", "expectations_suite_name",
      "checkpoint_name", "run_name_template", "data_bucket", "prefix_data">>

DEFAULT == "MUST_BE_SET"

\* a key the code does not require, which a section may hold all the same
ExtraKey == "note"

\* the order in which the keys of a section appear in the document
KeyOrder == project_keys \o global_keys \o <<ExtraKey>>

EmptyCfg == [k \in {} |-> None]

\* cfg.items(), as the list of its keys in document order
Items(c) == SelectSeq(KeyOrder, LAMBDA k : k \in DOMAIN c)

(***************************************************************************)
(* Exceptions and log records                                              *)
(***************************************************************************)
NoError == [type |-> "none", what |-> "", config |-> "", keys |-> <<>>]
Error(type, what, config, keys) ==
    [type |-> type, what |-> what, config |-> config, keys |-> keys]
LogRec(level, what, keys) == [level |-> level, what |-> what, keys |-> keys]

(***************************************************************************)
(* evaluate_config_keys                                                    *)
(***************************************************************************)
MissingKeysFirstOnly(c, list_keys) ==
    LET all == SelectSeq(list_keys, LAMBDA k : k \notin DOMAIN c)
    IN  IF Len(all) > 0 THEN <<all[1]>> ELSE <<>>

MissingKeys(c, list_keys) ==
    SelectSeq(list_keys, LAMBDA k : k \notin DOMAIN c)

MissingValuesFirstOnly(c) ==
    LET all == SelectSeq(Items(c), LAMBDA k : Falsy(c[k]) /\ k # "site_bucket_prefix")
    IN  IF Len(all) > 0 THEN <<all[1]>> ELSE <<>>

MissingValuesNoExemption(c) ==
    SelectSeq(Items(c), LAMBDA k : Falsy(c[k]))

MissingValues(c) ==
    SelectSeq(Items(c), LAMBDA k : Falsy(c[k]) /\ k # "site_bucket_prefix")

EvaluateConfigKeys(c, list_keys, config_name) ==
    LET missing_keys == MissingKeys(c, list_keys)
        missing_values == MissingValues(c)
        info == LogRec("INFO", "checking_keys", <<config_name>>)
    IN  IF Len(missing_keys) > 0
        THEN [log |-> <<info, LogRec("WARNING", "missing_keys", missing_keys)>>,
              err |-> Error("KeyError", "missing_keys", config_name, missing_keys)]
        ELSE IF Len(missing_values) > 0
        THEN [log |-> <<info, LogRec("WARNING", "missing_values", missing_values)>>,
              err |-> Error("KeyError", "missing_values", config_name, missing_values)]
        ELSE [log |-> <<info>>, err |-> NoError]

(***************************************************************************)
(* evaluate_global_config                                                  *)
(***************************************************************************)
ListFailedFirstOnly(c, list_keys) ==
    LET all == SelectSeq(list_keys, LAMBDA k : c[k] = Str(DEFAULT))
    IN  IF Len(all) > 0 THEN <<all[1]>> ELSE <<>>

ListFailed(c, list_keys) ==
    SelectSeq(list_keys, LAMBDA k : c[k] = Str(DEFAULT))

EvaluateGlobalConfig(c, list_keys, config_name) ==
    LET r == EvaluateConfigKeys(c, list_keys, config_name)
    IN  IF r.err.type # "none" THEN r
        ELSE LET list_failed == ListFailed(c, list_keys)
                 warnings == [i \in 1..Len(list_failed) |->
                                LogRec("WARNING", "default_value", <<list_failed[i]>>)]
             IN  IF Len(list_failed) > 0
                 THEN [log |-> r.log \o warnings,
                       err |-> Error("ValueError", "unset_defaults", config_name,
                                     list_failed)]
                 ELSE [log |-> r.log, err |-> NoError]

(***************************************************************************)
(* Inputs: the sections of testing_config.yml                              *)
(***************************************************************************)
ValidValue(k) ==
    CASE k = "store_bucket" -> Str("b1")
      [] k = "site_bucket" -> Str("b2")
      [] k = "data_bucket" -> Str("b3")
      [] k = "site_bucket_prefix" -> Str("docs")
      [] k = "docker_image_name" -> Str("myimg")
      [] k = "account_id" -> Str("123")
      [] k = "region" -> Str("us-east-1")
      [] OTHER -> Str("v")

ValidProject == [k \in Range(project_keys) |-> ValidValue(k)]
ValidGlobal == [k \in Range(global_keys) |-> ValidValue(k)]

\* what can be wrong with a key of a section
DefectValue(d) ==
    CASE d = "none" -> None
      [] d = "empty" -> Str("")
      [] d = "default" -> Str(DEFAULT)

\* base with the keys of DOMAIN f made absent or given a defective value, and
\* the entries of extra added where base has no such key
Deviate(base, f, extra) ==
    LET kept == {k \in DOMAIN base : ~(k \in DOMAIN f /\ f[k] = "absent")}
    IN  [k \in kept \cup (DOMAIN extra \ DOMAIN base) |->
            IF k \in kept
            THEN IF k \in DOMAIN f THEN DefectValue(f[k]) ELSE base[k]
            ELSE extra[k]]

SubsetsUpTo(S, n) == {D \in SUBSET S : Cardinality(D) <= n}

Deviations(base, defects, extras) ==
    {Deviate(base, f, x) :
        f \in UNION {[D -> defects] : D \in SubsetsUpTo(DOMAIN base, MaxDefects)},
        x \in extras}

\* keys beyond the required ones that a section may hold
ProjectExtras ==
    {EmptyCfg,
     ExtraKey :> None,
     ExtraKey :> Str("x"),
     "region" :> Str("eu-central-1")}

GlobalExtras ==
    {EmptyCfg,
     ExtraKey :> None,
     ExtraKey :> Str("x"),
     "site_bucket_prefix" :> None,
     "store_bucket" :> Str("gb")}

ProjectConfigs == Deviations(ValidProject, {"absent", "none", "empty"}, ProjectExtras)
GlobalConfigs ==
    Deviations(ValidGlobal, {"absent", "none", "empty", "default"}, GlobalExtras)

\* testing_config.yml: the global section and one project section
Document(g, name, c) == ("global" :> g) @@ (name :> c)

(***************************************************************************)
(* Text: a document is the sequence of its segments between newline        *)
(* characters, so "a\nb\n" is <<"a", "b", "">> and "a\nb" is <<"a", "b">>. *)
(***************************************************************************)
\* string concatenation of two documents
Concat(a, b) ==
    SubSeq(a, 1, Len(a) - 1) \o <<a[Len(a)] \o b[1]>> \o Tail(b)

(***************************************************************************)
(* Template renderers                                                      *)
(***************************************************************************)
\* base_yaml of generate_ge_config; uuid is str(uuid.uuid4())
GeBaseYaml(c, uuid) ==
    <<"",
      "  # config_version refers to the syntactic version of this config file, and is used in maintaining backwards compatibility",
      "  # It is auto-generated and usually does not need to be changed.",
      "  config_version: 3.0",
      "",
      "  # Datasources tell Great Expectations where your data lives and how to get it.",
      "  datasources:",
      "    runtime_data:",
      "      execution_engine:",
      "        module_name: great_expectations.execution_engine",
      "        class_name: PandasExecutionEngine",
      "      data_connectors:",
      "        runtime_data_connector:",
      "          batch_identifiers:",
      "            - batch_identifier",
      "          class_name: RuntimeDataConnector",
      "",
      "  stores:",
      "  # Stores are configurable places to store things like Expectations, Validations",
      "  # Data Docs, and more. These are for advanced users only - most users can simply",
      "  # leave this section alone.",
      "  #",
      "  # Three stores are required: expectations, validations, and",
      "  # evaluation_parameters, and must exist with a valid store entry. Additional",
      "  # stores can be configured for uses such as data_docs, etc.",
      "    expectations_store:",
      "      class_name: ExpectationsStore",
      "      store_backend:",
      "        class_name: TupleS3StoreBackend",
      "        bucket: " \o Format(c["store_bucket"]),
      "        prefix: " \o Format(c["store_bucket_prefix"]) \o "/expectations/",
      "",
      "    validations_store:",
      "      class_name: ValidationsStore",
      "      store_backend:",
      "        class_name: TupleS3StoreBackend",
      "        bucket: " \o Format(c["store_bucket"]),
      "        prefix: " \o Format(c["store_bucket_prefix"]) \o "/validations/",
      "",
      "    evaluation_parameter_store:",
      "      class_name: EvaluationParameterStore",
      "",
      "    checkpoint_store:",
      "      class_name: CheckpointStore",
      "      store_backend:",
      "        class_name: TupleS3StoreBackend",
      "        bucket: " \o Format(c["store_bucket"]),
      "        prefix: " \o Format(c["store_bucket_prefix"]) \o "/checkpoints/",
      "",
      "    profiler_store:",
      "      class_name: ProfilerStore",
      "      store_backend:",
      "        class_name: TupleS3StoreBackend",
      "        bucket: " \o Format(c["store_bucket"]),
      "        prefix: " \o Format(c["store_bucket_prefix"]) \o "/profiles/",
      "        suppress_store_backend_id: true",
      "",
      "  expectations_store_name: expectations_store",
      "  validations_store_name: validations_store",
      "  evaluation_parameter_store_name: evaluation_parameter_store",
      "  checkpoint_store_name: checkpoint_store",
      "  profiler_store_name: profiler_store",
      "",
      "  data_docs_sites:",
      "  # Data Docs make it simple to visualize data quality in your project. These",
      "  # include Expectations, Validations & Profiles. The are built for all",
      "  # Datasources from JSON artifacts in the local repo including validations &",
      "  # profiles from the uncommitted directory. Read more at https://docs.greatexpectations.io/en/latest/reference/core_concepts/data_docs.html",
      "    " \o Format(c["site_name"]) \o ":",
      "      class_name: SiteBuilder",
      "      # set to false to hide how-to buttons in Data Docs",
      "      show_how_to_buttons: true",
      "      store_backend:",
      "        class_name: TupleS3StoreBackend",
      "        bucket: " \o Format(c["site_bucket"]),
      "        prefix: " \o Format(c["site_bucket_prefix"]),
      "      site_index_builder:",
      "        class_name: DefaultSiteIndexBuilder",
      "",
      "",
      "  anonymous_usage_statistics:",
      "    enabled: true",
      "    data_context_id: " \o uuid,
      "  ">>

\* document of generate_ecr_bash_script
EcrDocument(c, g) ==
    LET ECR_endpoint ==
            Format(g["account_id"]) \o ".dkr.ecr." \o Format(g["region"])
                \o ".amazonaws.com"
        docker_image == Format(c["docker_image_name"])
        region == Format(g["region"])
    IN  <<"#!/bin/bash",
          "    ",
          "# Ensure region is (temporarily) set to prevent errors",
          "export AWS_DEFAULT_REGION=\"eu-west-1\"",
          "",
          "# Change permissions of files. Otherwise upstream lambda will give permission error",
          "chmod 644 $(find . -type f)",
          "chmod 755 $(find . -type d)",
          "",
          "# Temporarily copy requirements.txt for usage w/ Dockerfile",
          "cp ../requirements.txt ./requirements.txt",
          "",
          "# Build image",
          "docker build -t " \o docker_image \o " .",
          "",
          "# Remove requirements.txt",
          "rm -rf requirements.txt",
          "",
          "# Log into AWS and ECR",
          "aws ecr get-login-password --region " \o region \o " | docker login --username AWS --password-stdin " \o ECR_endpoint,
          "",
          "# Create test repo, gives warning but continues of it already exists",
          "aws ecr create-repository --repository-name " \o docker_image \o " --image-scanning-configuration scanOnPush=true --image-tag-mutability MUTABLE || true",
          "",
          "# Tag image and push to ECR",
          "docker tag " \o docker_image \o ":latest " \o ECR_endpoint \o "/" \o docker_image \o ":latest",
          "docker push " \o ECR_endpoint \o "/" \o docker_image \o ":latest">>

\* document of generate_terraform_provider_config
ProviderDocument(cfg_global_) ==
    <<"# NOTE: It's best to run Terraform using state stored in a state bucket. For more",
      "# information, please refer to https://www.terraform.io/language/state/remote",
      "terraform {",
      "  required_providers {",
      "    aws = {",
      "      source  = \"hashicorp/aws\"",
      "      version = \"~> 4.0.0\"",
      "    }",
      "  }",
      "}",
      "",
      "provider \"aws\" {",
      "  region = \"" \o Format(cfg_global_["region"]) \o "\"",
      "}",
      "">>

\* document_buckets of generate_terraform_var_files
DocumentBuckets(c) ==
    <<"ge-bucket-name      = \"" \o Format(c["store_bucket"]) \o "\"",
      "ge-site-bucket-name = \"" \o Format(c["site_bucket"]) \o "\"",
      "ge-data-bucket-name = \"" \o Format(c["data_bucket"]) \o "\"",
      "">>

\* image_uri of generate_terraform_var_files
ImageUri(c, g) ==
    "\"" \o Format(g["account_id"]) \o ".dkr.ecr." \o Format(g["region"])
        \o ".amazonaws.com/" \o Format(c["docker_image_name"]) \o ":latest\""

\* document_lambda of generate_terraform_var_files
DocumentLambda(c, g) ==
    Concat(DocumentBuckets(c), <<"image_uri = " \o ImageUri(c, g)>>)

\* {**cfg, **cfg_global}: the keys of both, the global value where both hold one
MergeProjectWins(c, g) ==
    [k \in DOMAIN c \cup DOMAIN g |-> IF k \in DOMAIN c THEN c[k] ELSE g[k]]

Merge(c, g) ==
    [k \in DOMAIN c \cup DOMAIN g |-> IF k \in DOMAIN g THEN g[k] ELSE c[k]]

(***************************************************************************)
(* The filesystem                                                          *)
(***************************************************************************)
Dir == [kind |-> "dir"]
TextFile(lines) == [kind |-> "file", lines |-> lines]
YamlFile(mapping) == [kind |-> "file", yaml |-> mapping]

EmptyFs == [p \in {} |-> Dir]

IsPrefix(p, q) == Len(p) <= Len(q) /\ SubSeq(q, 1, Len(p)) = p
Parent(p) == SubSeq(p, 1, Len(p) - 1)

\* the working directory itself, <<>>, always exists
Exists(f, p) == p = <<>> \/ p \in DOMAIN f
IsDirAt(f, p) == p = <<>> \/ (p \in DOMAIN f /\ f[p].kind = "dir")
IsFileAt(f, p) == p \in DOMAIN f /\ f[p].kind = "file"

\* os.listdir(p): the names of all entries of p, of whatever kind
Listdir(f, p) ==
    {q[Len(p) + 1] : q \in {r \in DOMAIN f : Len(r) = Len(p) + 1 /\ IsPrefix(p, r)}}

\* the exception open(p, "w") raises, or "none"
OpenError(f, p) ==
    IF \E i \in 1..(Len(p) - 1) : IsFileAt(f, SubSeq(p, 1, i))
    THEN "NotADirectoryError"
    ELSE IF ~Exists(f, Parent(p)) THEN "FileNotFoundError"
    ELSE IF p \in DOMAIN f /\ f[p].kind = "dir" THEN "IsADirectoryError"
    ELSE "none"

\* open(p, "w") and write: the file is created or its content replaced
WriteFile(f, p, entry) == (p :> entry) @@ f

Mkdir(f, p) == (p :> Dir) @@ f

\* shutil.rmtree(p) of a directory: p and everything below it
Rmtree(f, p) == [q \in {r \in DOMAIN f : ~IsPrefix(p, r)} |-> f[q]]

\* shutil.ignore_patterns("__init__*", "non_verbose_files", "tutorial_files"),
\* on the names that occur in the model
IgnoredNames == {"__init__.py", "non_verbose_files", "tutorial_files"}

\* shutil.copytree(from, to, ignore): from is a directory of tree, to does not
\* exist; an entry is skipped when a name on its way below from is ignored
Copytree(f, tree, from, to, ignored) ==
    LET srcs == {t \in DOMAIN tree :
                    /\ IsPrefix(from, t) /\ t # from
                    /\ \A i \in (Len(from) + 1)..Len(t) : t[i] \notin ignored}
        dst(t) == to \o SubSeq(t, Len(from) + 1, Len(t))
        new == {dst(t) : t \in srcs}
    IN  [q \in DOMAIN f \cup {to} \cup new |->
            IF q = to THEN Dir
            ELSE IF q \in new THEN tree[CHOOSE t \in srcs : dst(t) = q]
            ELSE f[q]]

CopyTreeKeepingOld(f, tree, from, to, ignored) ==
    IF Exists(f, to) /\ ~IsDirAt(f, to)
    THEN [fs |-> f, err |-> "NotADirectoryError"]
    ELSE [fs |-> Copytree(f, tree, from, to, ignored), err |-> "none"]

\* copy_and_overwrite_tree: rmtree(to) when it exists (which raises when to is
\* not a directory), then copytree
CopyAndOverwriteTree(f, tree, from, to, ignored) ==
    IF Exists(f, to)
    THEN IF IsDirAt(f, to)
         THEN [fs |-> Copytree(Rmtree(f, to), tree, from, to, ignored),
               err |-> "none"]
         ELSE [fs |-> f, err |-> "NotADirectoryError"]
    ELSE [fs |-> Copytree(f, tree, from, to, ignored), err |-> "none"]

(***************************************************************************)
(* Inputs: the command line, the document, the working directory and the   *)
(* bootstrap_files tree                                                    *)
(***************************************************************************)
ProjectNames == {"proj", "tutorial"}

NoDefect == [k \in {} |-> "absent"]

MainGlobals ==
    {ValidGlobal,
     Deviate(ValidGlobal, NoDefect, "store_bucket" :> Str("gb")),
     Deviate(ValidGlobal, "region" :> "default", EmptyCfg),
     Deviate(ValidGlobal, "account_id" :> "absent", EmptyCfg),
     Deviate(ValidGlobal, NoDefect, ExtraKey :> None)}

MainProjects ==
    {ValidProject,
     Deviate(ValidProject, "site_bucket_prefix" :> "none", EmptyCfg),
     Deviate(ValidProject, "site_bucket_prefix" :> "absent", EmptyCfg),
     Deviate(ValidProject,
             ("docker_image_name" :> "absent") @@ ("site_name" :> "absent"),
             EmptyCfg),
     Deviate(ValidProject, "data_bucket" :> "empty", EmptyCfg),
     Deviate(ValidProject, NoDefect, "region" :> Str("eu-central-1")),
     Deviate(ValidProject, NoDefect, ExtraKey :> None)}

\* what the working directory holds under the project's name before the run
OldProjectDir(name) ==
    (<<name>> :> Dir)
    @@ (<<name, "notes.txt">> :> TextFile(<<"keep me", "">>))
    @@ (<<name, "project_config.yml">> :> YamlFile("store_bucket" :> Str("old")))
    @@ (<<name, "terraform">> :> Dir)
    @@ (<<name, "terraform", "old_module">> :> Dir)
    @@ (<<name, "terraform", "old_module", "provider.tf">> :> TextFile(<<"old", "">>))

InitialDirs(name) ==
    {EmptyFs,
     <<name>> :> TextFile(<<"a plain file", "">>),
     <<name>> :> Dir,
     OldProjectDir(name)}

\* bootstrap_files/, paths relative to it
BaseBootstrap ==
    (<<"__init__.py">> :> TextFile(<<"">>))
    @@ (<<"expectation_suite.ipynb">> :> TextFile(<<"suite notebook", "">>))
    @@ (<<"lambda_function.py">> :> TextFile(<<"def lambda_handler", "">>))
    @@ (<<"non_verbose_files">> :> Dir)
    @@ (<<"non_verbose_files", "expectation_suite.ipynb">> :> TextFile(<<"terse", "">>))
    @@ (<<"terraform">> :> Dir)
    @@ (<<"terraform", "buckets">> :> Dir)
    @@ (<<"terraform", "buckets", "main.tf">> :> TextFile(<<"buckets", "">>))
    @@ (<<"terraform", "lambda">> :> Dir)
    @@ (<<"terraform", "lambda", "main.tf">> :> TextFile(<<"lambda", "">>))
    @@ (<<"tutorial_files">> :> Dir)
    @@ (<<"tutorial_files", "lambda_function.py">> :> TextFile(<<"tutorial handler", "">>))
    @@ (<<"tutorial_files", "tutorial_notebook.ipynb">> :> TextFile(<<"tutorial notebook", "">>))
    @@ (<<"tutorial_files", "tutorial_data">> :> Dir)
    @@ (<<"tutorial_files", "tutorial_data", "data.csv">> :> TextFile(<<"a,b", "">>))
    @@ (<<"tutorial_files", "terraform">> :> Dir)
    @@ (<<"tutorial_files", "terraform", "tutorial_bucket">> :> Dir)
    @@ (<<"tutorial_files", "terraform", "tutorial_bucket", "main.tf">>
            :> TextFile(<<"tutorial buckets", "">>))
    @@ (<<"tutorial_files", "terraform", "tutorial_lambda">> :> Dir)
    @@ (<<"tutorial_files", "terraform", "tutorial_lambda", "main.tf">>
            :> TextFile(<<"tutorial lambda", "">>))

\* entries the template tree may hold besides: another Terraform directory, a
\* plain file next to the Terraform directories, a great_expectations directory
BootstrapExtras ==
    {EmptyFs,
     (<<"terraform", "modules">> :> Dir),
     (<<"terraform", "README.md">> :> TextFile(<<"how to apply", "">>)),
     (<<"terraform", "modules">> :> Dir)
        @@ (<<"terraform", "README.md">> :> TextFile(<<"how to apply", "">>)),
     (<<"great_expectations">> :> Dir),
     (<<"great_expectations">> :> Dir) @@ (<<"terraform", "modules">> :> Dir)}

\* files the tutorial's Terraform directories may hold besides main.tf: the
\* copy loops of adjust_for_tutorial take every name os.listdir returns
TutorialExtras ==
    {EmptyFs,
     (<<"tutorial_files", "terraform", "tutorial_bucket", "provider.tf">>
            :> TextFile(<<"tutorial provider", "">>)),
     (<<"tutorial_files", "terraform", "tutorial_lambda", "tutorial.auto.tfvars">>
            :> TextFile(<<"tutorial variables", "">>))}

Bootstraps == {x @@ t @@ BaseBootstrap : x \in BootstrapExtras, t \in TutorialExtras}

\* answers typed at the overwrite prompt
Responses == {"y", "YES", "n", "", "yEs"}

\* values uuid.uuid4() may return
UUIDs == {"3f2b8c1e-5d4a-4e6f-9a7b-0c1d2e3f4a5b", "a1b2c3d4-e5f6-4789-8abc-def012345678"}

TypeOK ==
    /\ pc \in {"load", "reraise", "check_global", "check_project", "check_exists",
               "mkdir", "copy", "project_config", "ge_config", "ecr_script",
               "var_files", "provider", "provider_loop", "tutorial",
               "tutorial_buckets", "tutorial_lambda", "done", "failed"}
    /\ args_project \in ProjectNames
    /\ prompted \in 0..1

Init ==
    /\ pc = "load"
    /\ args_project \in ProjectNames
    /\ cfg_all \in {Document(g, n, c) :
                        g \in MainGlobals, n \in ProjectNames, c \in MainProjects}
    /\ cfg_global = EmptyCfg
    /\ cfg = EmptyCfg
    /\ fs \in InitialDirs(args_project)
    /\ fs0 = fs
    /\ bootstrap \in Bootstraps
    /\ response = ""
    /\ prompted = 0
    /\ todo = {}
    /\ log = <<>>
    /\ err = NoError

\* the state in which the two sections, drawn from the full input sets, have
\* been loaded and are about to be validated
InitValidation ==
    /\ pc = "check_global"
    /\ args_project = "proj"
    /\ \E gc \in ({ValidGlobal} \X ProjectConfigs) \cup (GlobalConfigs \X {ValidProject}) :
          /\ cfg_all = Document(gc[1], args_project, gc[2])
          /\ cfg_global = gc[1]
          /\ cfg = gc[2]
    /\ fs = EmptyFs
    /\ fs0 = fs
    /\ bootstrap = BaseBootstrap
    /\ response = ""
    /\ prompted = 0
    /\ todo = {}
    /\ log = <<LogRec("INFO", "parsing_arguments", <<>>),
               LogRec("INFO", "loading_configurations", <<>>)>>
    /\ err = NoError

(***************************************************************************)
(* main_program, step 2: load and check the configurations                 *)
(***************************************************************************)
Fail(e) == pc' = "failed" /\ err' = e

ProjectDir == <<args_project>>
OsError(type, path) == Error(type, "os_error", "", path)

\* the exit status of the interpreter: an uncaught exception, SystemExit with
\* a message included, ends the run with status 1
ExitStatus(e) == IF e.type = "none" THEN 0 ELSE 1

\* args.project in os.listdir(): an entry of that name, of whatever kind
ProjectListed(f, name) == name \in Listdir(f, <<>>)

LoadConfigSilent ==
    /\ pc = "load"
    /\ cfg_global' = cfg_all["global"]
    /\ IF args_project \in DOMAIN cfg_all
       THEN /\ cfg' = cfg_all[args_project]
            /\ pc' = "check_global"
       ELSE /\ cfg' = cfg
            /\ pc' = "reraise"
    /\ log' = log \o <<LogRec("INFO", "parsing_arguments", <<>>),
                       LogRec("INFO", "loading_configurations", <<>>)>>
    /\ UNCHANGED <<args_project, cfg_all, fs, fs0, bootstrap, response, prompted,
                   todo, err>>

\* lines 20-39: cfg_all["global"], then cfg_all[args.project] in the try block
LoadConfig ==
    /\ pc = "load"
    /\ cfg_global' = cfg_all["global"]
    /\ IF args_project \in DOMAIN cfg_all
       THEN /\ cfg' = cfg_all[args_project]
            /\ log' = log \o <<LogRec("INFO", "parsing_arguments", <<>>),
                               LogRec("INFO", "loading_configurations", <<>>)>>
            /\ pc' = "check_global"
       ELSE /\ cfg' = cfg
            /\ log' = log \o <<LogRec("INFO", "parsing_arguments", <<>>),
                               LogRec("INFO", "loading_configurations", <<>>),
                               LogRec("WARNING", "project_not_found", <<args_project>>)>>
            /\ pc' = "reraise"
    /\ UNCHANGED <<args_project, cfg_all, fs, fs0, bootstrap, response, prompted,
                   todo, err>>

\* line 39: raise ke
ReraiseKeyError ==
    /\ pc = "reraise"
    /\ Fail(Error("KeyError", "project_lookup", "", <<args_project>>))
    /\ UNCHANGED <<args_project, cfg_all, cfg_global, cfg, fs, fs0, bootstrap,
                   response, prompted, todo, log>>

\* lines 42-43
CheckGlobalConfig ==
    /\ pc = "check_global"
    /\ LET r == EvaluateGlobalConfig(cfg_global, global_keys, "global")
       IN  /\ log' = log \o r.log
           /\ IF r.err.type = "none"
              THEN pc' = "check_project" /\ err' = err
              ELSE Fail(r.err)
    /\ UNCHANGED <<args_project, cfg_all, cfg_global, cfg, fs, fs0, bootstrap,
                   response, prompted, todo>>

CheckProjectConfigAfterMkdir ==
    /\ pc = "check_project"
    /\ fs' = IF ~ProjectListed(fs, args_project) THEN Mkdir(fs, ProjectDir) ELSE fs
    /\ LET r == EvaluateConfigKeys(cfg, project_keys, args_project)
       IN  /\ log' = log \o r.log
           /\ IF r.err.type = "none"
              THEN pc' = "check_exists" /\ err' = err
              ELSE Fail(r.err)
    /\ UNCHANGED <<args_project, cfg_all, cfg_global, cfg, fs0, bootstrap,
                   response, prompted, todo>>

\* lines 46-59
CheckProjectConfig ==
    /\ pc = "check_project"
    /\ LET r == EvaluateConfigKeys(cfg, project_keys, args_project)
       IN  /\ log' = log \o r.log
           /\ IF r.err.type = "none"
              THEN pc' = "check_exists" /\ err' = err
              ELSE Fail(r.err)
    /\ UNCHANGED <<args_project, cfg_all, cfg_global, cfg, fs, fs0, bootstrap,
                   response, prompted, todo>>

(***************************************************************************)
(* main_program, steps 3-10: materialise the project                       *)
(***************************************************************************)
AffirmativeByDefault == {"y", "Y", "yes", "Yes", "YES", ""}

\* the answers check_if_project_exists takes for a yes (line 201)
Affirmative == {"y", "Y", "yes", "Yes", "YES"}

\* check_if_project_exists (line 63)
CheckIfProjectExists ==
    /\ pc = "check_exists"
    /\ IF ProjectListed(fs, args_project)
       THEN \E r \in Responses :
               /\ response' = r
               /\ prompted' = prompted + 1
               /\ IF r \in Affirmative
                  THEN /\ log' = log \o <<LogRec("INFO", "overwrite_prompt", <<args_project>>),
                                          LogRec("INFO", "overwriting", <<args_project>>)>>
                       /\ pc' = "mkdir"
                       /\ err' = err
                  ELSE /\ log' = Append(log, LogRec("INFO", "overwrite_prompt", <<args_project>>))
                       /\ Fail(Error("SystemExit", "project_exists", "", <<>>))
       ELSE /\ pc' = "mkdir"
            /\ UNCHANGED <<response, prompted, log, err>>
    /\ UNCHANGED <<args_project, cfg_all, cfg_global, cfg, fs, fs0, bootstrap, todo>>

\* lines 64-65
MakeProjectDir ==
    /\ pc = "mkdir"
    /\ fs' = IF ~ProjectListed(fs, args_project) THEN Mkdir(fs, ProjectDir) ELSE fs
    /\ pc' = "copy"
    /\ UNCHANGED <<args_project, cfg_all, cfg_global, cfg, fs0, bootstrap, response,
                   prompted, todo, log, err>>

\* lines 69-75
CopyBootstrapFiles ==
    /\ pc = "copy"
    /\ LET r == CopyAndOverwriteTree(fs, bootstrap, <<>>, ProjectDir, IgnoredNames)
       IN  /\ fs' = r.fs
           /\ IF r.err = "none"
              THEN pc' = "project_config" /\ err' = err
              ELSE Fail(OsError(r.err, ProjectDir))
    /\ log' = Append(log, LogRec("INFO", "copying", ProjectDir))
    /\ UNCHANGED <<args_project, cfg_all, cfg_global, cfg, fs0, bootstrap, response,
                   prompted, todo>>

\* open(path, "w") and write entry, or the exception of the open
Write(f, path, entry) ==
    IF OpenError(f, path) = "none"
    THEN [fs |-> WriteFile(f, path, entry), err |-> NoError]
    ELSE [fs |-> f, err |-> OsError(OpenError(f, path), path)]

\* the document generate_project_config dumps: cfg_global merged in when it is
\* a non-empty mapping
ProjectConfigDocument(c, g) == IF DOMAIN g # {} THEN Merge(c, g) ELSE c

\* generate_project_config (line 78)
GenerateProjectConfig ==
    /\ pc = "project_config"
    /\ LET r == Write(fs, ProjectDir \o <<"project_config.yml">>,
                      YamlFile(ProjectConfigDocument(cfg, cfg_global)))
       IN  /\ fs' = r.fs
           /\ IF r.err.type = "none"
              THEN pc' = "ge_config" /\ err' = err
              ELSE Fail(r.err)
    /\ UNCHANGED <<args_project, cfg_all, cfg_global, cfg, fs0, bootstrap, response,
                   prompted, todo, log>>

\* generate_ge_config (line 81)
GenerateGeConfig ==
    /\ pc = "ge_config"
    /\ \E uuid \in UUIDs :
          LET ge_dir == ProjectDir \o <<"great_expectations">>
              made == IF "great_expectations" \notin Listdir(fs, ProjectDir)
                      THEN Mkdir(fs, ge_dir)
                      ELSE fs
              r == Write(made, ge_dir \o <<"great_expectations.yml">>,
                         TextFile(GeBaseYaml(cfg, uuid)))
          IN  /\ fs' = r.fs
              /\ IF r.err.type = "none"
                 THEN pc' = "ecr_script" /\ err' = err
                 ELSE Fail(r.err)
    /\ log' = Append(log, LogRec("INFO", "generating_ge_config", <<>>))
    /\ UNCHANGED <<args_project, cfg_all, cfg_global, cfg, fs0, bootstrap, response,
                   prompted, todo>>

\* generate_ecr_bash_script (line 84)
GenerateEcrBashScript ==
    /\ pc = "ecr_script"
    /\ LET r == Write(fs, ProjectDir \o <<"build_image_store_on_ecr.sh">>,
                      TextFile(EcrDocument(cfg, cfg_global)))
       IN  /\ fs' = r.fs
           /\ IF r.err.type = "none"
              THEN pc' = "var_files" /\ err' = err
              ELSE Fail(r.err)
    /\ log' = Append(log, LogRec("INFO", "generating_bash_script", <<>>))
    /\ UNCHANGED <<args_project, cfg_all, cfg_global, cfg, fs0, bootstrap, response,
                   prompted, todo>>

PathsOutSwapped(name) ==
    <<<<name, "terraform", "lambda", name \o ".auto.tfvars">>,
      <<name, "terraform", "buckets", name \o ".auto.tfvars">>>>

\* paths_out of generate_terraform_var_files
PathsOut(name) ==
    <<<<name, "terraform", "buckets", name \o ".auto.tfvars">>,
      <<name, "terraform", "lambda", name \o ".auto.tfvars">>>>

\* generate_terraform_var_files (line 87): the two writes of the zip loop, the
\* second only when the first raised nothing
GenerateTerraformVarFiles ==
    /\ pc = "var_files"
    /\ LET paths_out == PathsOut(args_project)
           r1 == Write(fs, paths_out[1], TextFile(DocumentBuckets(cfg)))
           r2 == Write(r1.fs, paths_out[2], TextFile(DocumentLambda(cfg, cfg_global)))
       IN  IF r1.err.type # "none"
           THEN fs' = r1.fs /\ Fail(r1.err)
           ELSE /\ fs' = r2.fs
                /\ IF r2.err.type = "none"
                   THEN pc' = "provider" /\ err' = err
                   ELSE Fail(r2.err)
    /\ UNCHANGED <<args_project, cfg_all, cfg_global, cfg, fs0, bootstrap, response,
                   prompted, todo, log>>

TfDir == <<args_project, "terraform">>

\* generate_terraform_provider_config (line 90): os.listdir(tf_dir)
ProviderListdir ==
    /\ pc = "provider"
    /\ todo' = Listdir(fs, TfDir)
    /\ pc' = "provider_loop"
    /\ UNCHANGED <<args_project, cfg_all, cfg_global, cfg, fs, fs0, bootstrap,
                   response, prompted, log, err>>

\* one pass of its loop (lines 413-417), over the entries in any order
ProviderWrite ==
    /\ pc = "provider_loop"
    /\ \E dir \in todo :
          LET r == Write(fs, TfDir \o <<dir, "provider.tf">>,
                         TextFile(ProviderDocument(cfg_global)))
          IN  /\ fs' = r.fs
              /\ todo' = todo \ {dir}
              /\ IF r.err.type = "none"
                 THEN pc' = pc /\ err' = err
                 ELSE Fail(r.err)
    /\ UNCHANGED <<args_project, cfg_all, cfg_global, cfg, fs0, bootstrap, response,
                   prompted, log>>

\* the loop is exhausted
ProviderDone ==
    /\ pc = "provider_loop"
    /\ todo = {}
    /\ pc' = "tutorial"
    /\ UNCHANGED <<args_project, cfg_all, cfg_global, cfg, fs, fs0, bootstrap,
                   response, prompted, todo, log, err>>

(***************************************************************************)
(* adjust_for_tutorial (line 94)                                           *)
(***************************************************************************)
TutorialFiles == <<"tutorial_files">>

\* shutil.copy2(src, dst) of a file of bootstrap_files/
Copy2(f, tree, src, dst) ==
    IF src \notin DOMAIN tree THEN [fs |-> f, err |-> OsError("FileNotFoundError", src)]
    ELSE IF tree[src].kind = "dir" THEN [fs |-> f, err |-> OsError("IsADirectoryError", src)]
    ELSE Write(f, dst, tree[src])

\* os.remove(path)
Remove(f, path) ==
    IF path \notin DOMAIN f THEN [fs |-> f, err |-> OsError("FileNotFoundError", path)]
    ELSE IF f[path].kind = "dir" THEN [fs |-> f, err |-> OsError("IsADirectoryError", path)]
    ELSE [fs |-> [q \in DOMAIN f \ {path} |-> f[q]], err |-> NoError]

\* lines 479-485: the log record, the test, os.listdir of tutorial_bucket/
AdjustForTutorial ==
    /\ pc = "tutorial"
    /\ log' = Append(log, LogRec("INFO", "adjusting_for_tutorial", <<>>))
    /\ IF args_project = "tutorial"
       THEN /\ todo' = Listdir(bootstrap, TutorialFiles \o <<"terraform", "tutorial_bucket">>)
            /\ pc' = "tutorial_buckets"
       ELSE /\ todo' = todo
            /\ pc' = "done"
    /\ UNCHANGED <<args_project, cfg_all, cfg_global, cfg, fs, fs0, bootstrap,
                   response, prompted, err>>

\* one pass of a copy loop: tutorial_file from orig to dest
TutorialCopy(at, orig, dest) ==
    /\ pc = at
    /\ \E tutorial_file \in todo :
          LET r == Copy2(fs, bootstrap, orig \o <<tutorial_file>>,
                         dest \o <<tutorial_file>>)
          IN  /\ fs' = r.fs
              /\ todo' = todo \ {tutorial_file}
              /\ IF r.err.type = "none"
                 THEN pc' = pc /\ err' = err
                 ELSE Fail(r.err)
    /\ UNCHANGED <<args_project, cfg_all, cfg_global, cfg, fs0, bootstrap, response,
                   prompted, log>>

\* lines 485-486
TutorialCopyBucket ==
    TutorialCopy("tutorial_buckets",
                 TutorialFiles \o <<"terraform", "tutorial_bucket">>,
                 TfDir \o <<"buckets">>)

\* lines 489-491: the first loop is exhausted, os.listdir of tutorial_lambda/
TutorialBucketsDone ==
    /\ pc = "tutorial_buckets"
    /\ todo = {}
    /\ todo' = Listdir(bootstrap, TutorialFiles \o <<"terraform", "tutorial_lambda">>)
    /\ pc' = "tutorial_lambda"
    /\ UNCHANGED <<args_project, cfg_all, cfg_global, cfg, fs, fs0, bootstrap,
                   response, prompted, log, err>>

\* lines 491-492
TutorialCopyLambda ==
    TutorialCopy("tutorial_lambda",
                 TutorialFiles \o <<"terraform", "tutorial_lambda">>,
                 TfDir \o <<"lambda">>)

\* lines 494-508: tutorial data, notebook, os.remove, lambda function
TutorialRest ==
    /\ pc = "tutorial_lambda"
    /\ todo = {}
    /\ LET Data(f) ==
               LET c == CopyAndOverwriteTree(f, bootstrap,
                            TutorialFiles \o <<"tutorial_data">>,
                            ProjectDir \o <<"data">>, {})
               IN  [fs |-> c.fs,
                    err |-> IF c.err = "none" THEN NoError
                            ELSE OsError(c.err, ProjectDir \o <<"data">>)]
           Notebook(f) ==
               Copy2(f, bootstrap, TutorialFiles \o <<"tutorial_notebook.ipynb">>,
                     ProjectDir \o <<"tutorial_notebook.ipynb">>)
           RemoveSuite(f) == Remove(f, ProjectDir \o <<"expectation_suite.ipynb">>)
           Lambda(f) ==
               Copy2(f, bootstrap, TutorialFiles \o <<"lambda_function.py">>,
                     ProjectDir \o <<"lambda_function.py">>)
           r1 == Data(fs)
           r2 == IF r1.err.type # "none" THEN r1 ELSE Notebook(r1.fs)
           r3 == IF r2.err.type # "none" THEN r2 ELSE RemoveSuite(r2.fs)
           r == IF r3.err.type # "none" THEN r3 ELSE Lambda(r3.fs)
       IN  /\ fs' = r.fs
           /\ IF r.err.type = "none"
              THEN pc' = "done" /\ err' = err
              ELSE Fail(r.err)
    /\ log' = Append(log, LogRec("INFO", "copying", ProjectDir \o <<"data">>))
    /\ UNCHANGED <<args_project, cfg_all, cfg_global, cfg, fs0, bootstrap, response,
                   prompted, todo>>

Next ==
    \/ LoadConfig
    \/ ReraiseKeyError
    \/ CheckGlobalConfig
    \/ CheckProjectConfig
    \/ CheckIfProjectExists
    \/ MakeProjectDir
    \/ CopyBootstrapFiles
    \/ GenerateProjectConfig
    \/ GenerateGeConfig
    \/ GenerateEcrBashScript
    \/ GenerateTerraformVarFiles
    \/ ProviderListdir
    \/ ProviderWrite
    \/ ProviderDone
    \/ AdjustForTutorial
    \/ TutorialCopyBucket
    \/ TutorialBucketsDone
    \/ TutorialCopyLambda
    \/ TutorialRest

Spec == Init /\ [][Next]_vars

NextValidation == CheckGlobalConfig \/ CheckProjectConfig

SpecValidation == InitValidation /\ [][NextValidation]_vars

(***************************************************************************)
(* Properties of the validation                                            *)
(***************************************************************************)
\* which validations have run, and which of them raised
GlobalEvaluated ==
    pc \notin {"load", "reraise", "check_global"} /\ err.what # "project_lookup"
GlobalFailed ==
    /\ pc = "failed" /\ err.config = "global"
    /\ err.what \in {"missing_keys", "missing_values", "unset_defaults"}
ProjectEvaluated == GlobalEvaluated /\ ~GlobalFailed /\ pc # "check_project"
ProjectFailed ==
    /\ pc = "failed" /\ err.config = args_project
    /\ err.what \in {"missing_keys", "missing_values"}

Absent(c, keys) == {k \in Range(keys) : k \notin DOMAIN c}
NoDuplicates(seq) == Cardinality(Range(seq)) = Len(seq)
Raised(type, what, config) ==
    pc = "failed" /\ err.type = type /\ err.what = what /\ err.config = config

MissingKeysReported(c, keys, config) ==
    Absent(c, keys) # {} =>
        /\ Raised("KeyError", "missing_keys", config)
        /\ Range(err.keys) = Absent(c, keys)
        /\ NoDuplicates(err.keys)

\* C2: whenever a validated config lacks at least one required key, the
\* validation fails with the missing-keys error and the keys it reports are
\* exactly the required keys absent from the config, all of them.
C2_AllMissingKeysReported ==
    /\ GlobalEvaluated => MissingKeysReported(cfg_global, global_keys, "global")
    /\ ProjectEvaluated => MissingKeysReported(cfg, project_keys, args_project)

C2_Witness ==
    /\ Raised("KeyError", "missing_keys", args_project)
    /\ Len(err.keys) >= 2

\* the missing-values check of a config that holds all required keys: it
\* raises exactly when bad is not empty, and then reports exactly bad
MissingValuesReported(c, keys, config, bad) ==
    Absent(c, keys) = {} =>
        /\ Raised("KeyError", "missing_values", config) <=> bad # {}
        /\ Raised("KeyError", "missing_values", config) =>
              Range(err.keys) = bad /\ NoDuplicates(err.keys)

EmptyRequired(c, keys) ==
    {k \in Range(keys) \cap DOMAIN c : Falsy(c[k])} \ {"site_bucket_prefix"}
EmptyAny(c) == {k \in DOMAIN c : Falsy(c[k])} \ {"site_bucket_prefix"}

\* C3 as stated: for a config holding all required keys, the missing-values
\* check fails exactly when a required key other than site_bucket_prefix is
\* empty, and it reports exactly the empty required keys other than
\* site_bucket_prefix, so no key outside the required list.
C3_OnlyRequiredKeysReported ==
    /\ GlobalEvaluated =>
          MissingValuesReported(cfg_global, global_keys, "global",
                                EmptyRequired(cfg_global, global_keys))
    /\ ProjectEvaluated =>
          MissingValuesReported(cfg, project_keys, args_project,
                                EmptyRequired(cfg, project_keys))

\* C3 as amended: for a config holding all required keys, the missing-values
\* check fails exactly when some key of the config, required or not, other
\* than site_bucket_prefix is empty, and it reports exactly the empty keys of
\* the config other than site_bucket_prefix; site_bucket_prefix is never
\* reported.
C3_AllEmptyKeysReported ==
    /\ GlobalEvaluated =>
          MissingValuesReported(cfg_global, global_keys, "global",
                                EmptyAny(cfg_global))
    /\ ProjectEvaluated =>
          MissingValuesReported(cfg, project_keys, args_project, EmptyAny(cfg))
    /\ (pc = "failed" /\ err.what = "missing_values") =>
          "site_bucket_prefix" \notin Range(err.keys)

C3_Witness ==
    /\ Raised("KeyError", "missing_values", args_project)
    /\ ExtraKey \in Range(err.keys)
    /\ Len(err.keys) >= 2
    /\ Falsy(cfg["site_bucket_prefix"])

StillDefault(c, keys) == {k \in Range(keys) \cap DOMAIN c : c[k] = Str(DEFAULT)}

UnsetDefaultsReported ==
    /\ Raised("ValueError", "unset_defaults", "global")
          <=> StillDefault(cfg_global, global_keys) # {}
    /\ Raised("ValueError", "unset_defaults", "global") =>
          /\ Range(err.keys) = StillDefault(cfg_global, global_keys)
          /\ NoDuplicates(err.keys)

RequiredPresentNonEmpty(c, keys) ==
    \A k \in Range(keys) : k \in DOMAIN c /\ ~Falsy(c[k])

\* C4 as stated: for a global config whose required keys are all present
\* and non-empty, evaluate_global_config fails with the unset-defaults error
\* exactly when a required key holds "MUST_BE_SET", and reports exactly
\* the required keys that hold it.
C4_UnsetDefaultsWhenRequiredNonEmpty ==
    (GlobalEvaluated /\ RequiredPresentNonEmpty(cfg_global, global_keys))
        => UnsetDefaultsReported

\* C4 as amended: the same, for a global config whose required keys are all
\* present and in which no key, required or not, other than
\* site_bucket_prefix is empty.
C4_UnsetDefaultsWhenNoKeyEmpty ==
    (/\ GlobalEvaluated
     /\ RequiredPresentNonEmpty(cfg_global, global_keys)
     /\ EmptyAny(cfg_global) = {})
        => UnsetDefaultsReported

C4_Witness ==
    /\ Raised("ValueError", "unset_defaults", "global")
    /\ Len(err.keys) = 2
    /\ DOMAIN cfg_global # Range(global_keys)

GlobalValid(g) ==
    /\ RequiredPresentNonEmpty(g, global_keys)
    /\ StillDefault(g, global_keys) = {}

OthersPresentNonEmpty(c) ==
    \A k \in Range(project_keys) \ {"site_bucket_prefix"} :
        k \in DOMAIN c /\ ~Falsy(c[k])

\* C5 as stated: with a valid global config and a project config whose
\* required keys are all present and non-empty except site_bucket_prefix,
\* which is omitted, the validation of the project config raises nothing.
C5_OmittedPrefixAccepted ==
    (/\ ProjectEvaluated
     /\ GlobalValid(cfg_global)
     /\ OthersPresentNonEmpty(cfg)
     /\ "site_bucket_prefix" \notin DOMAIN cfg)
        => ~ProjectFailed

\* C5 as amended: with a valid global config and a project config in which
\* site_bucket_prefix is present with an empty value and every other key of
\* the config, the required ones all present, is non-empty, the validation
\* of the project config raises nothing.
C5_EmptyPrefixAccepted ==
    (/\ ProjectEvaluated
     /\ GlobalValid(cfg_global)
     /\ OthersPresentNonEmpty(cfg)
     /\ "site_bucket_prefix" \in DOMAIN cfg
     /\ Falsy(cfg["site_bucket_prefix"])
     /\ EmptyAny(cfg) = {})
        => ~ProjectFailed

C5_Witness ==
    /\ pc = "check_exists"
    /\ GlobalValid(cfg_global)
    /\ OthersPresentNonEmpty(cfg)
    /\ "site_bucket_prefix" \in DOMAIN cfg
    /\ Falsy(cfg["site_bucket_prefix"])




(***************************************************************************)
(* Properties of main_program                                              *)
(***************************************************************************)
\* the lookup and both validations have completed and none of them raised
ValidationPassed == ProjectEvaluated /\ ~ProjectFailed

\* C1: until the project lookup, the global validation and the project
\* validation have all succeeded the working directory is as it was when
\* the run started (nothing created, removed, copied or written), and it
\* stays so when one of them fails.
C1_NoWriteBeforeValidation == ~ValidationPassed => fs = fs0

C1_Witness ==
    /\ pc = "failed"
    /\ ProjectFailed
    /\ fs0 = OldProjectDir(args_project)
    /\ fs = fs0

LookupWarning == LogRec("WARNING", "project_not_found", <<args_project>>)
Logged(rec) == \E i \in 1..Len(log) : log[i] = rec
ValidationLogged == \E i \in 1..Len(log) : log[i].what = "checking_keys"

\* C6: when args.project is not a top-level key of the document, the run
\* goes from the lookup to the re-raise and ends with the KeyError naming the
\* project; the warning asking to add the project is in the log before the
\* error is raised; no validation runs and the working directory stays as it
\* was.
C6_UnknownProjectFails ==
    (args_project \notin DOMAIN cfg_all /\ pc # "load") =>
        /\ pc \in {"reraise", "failed"}
        /\ Logged(LookupWarning)
        /\ pc = "reraise" => err = NoError
        /\ pc = "failed" =>
              err = Error("KeyError", "project_lookup", "", <<args_project>>)
        /\ ~ValidationLogged
        /\ fs = fs0

C6_Witness ==
    /\ pc = "failed"
    /\ err.what = "project_lookup"
    /\ args_project \notin DOMAIN cfg_all
    /\ fs0 = OldProjectDir(args_project)

AnsweredYes == response \in {"y", "Y", "yes", "Yes", "YES"}
Aborted ==
    /\ pc = "failed"
    /\ err = Error("SystemExit", "project_exists", "", <<>>)
    /\ ExitStatus(err) # 0

AfterProjectConfig ==
    {"ge_config", "ecr_script", "var_files", "provider", "provider_loop", "tutorial",
     "tutorial_buckets", "tutorial_lambda", "done"}

\* C8: once generate_project_config has run, project_config.yml holds a
\* mapping whose keys are those of the project config and of the global
\* config together; a key both hold has the global value, every other key
\* the value of the config that holds it; and the two configs are still the
\* sections of the document.
C8_MergedConfigGlobalWins ==
    pc \in AfterProjectConfig =>
        LET path == ProjectDir \o <<"project_config.yml">>
        IN  /\ path \in DOMAIN fs
            /\ DOMAIN fs[path] = {"kind", "yaml"}
            /\ DOMAIN fs[path].yaml = DOMAIN cfg \cup DOMAIN cfg_global
            /\ \A k \in DOMAIN cfg_global : fs[path].yaml[k] = cfg_global[k]
            /\ \A k \in DOMAIN cfg \ DOMAIN cfg_global : fs[path].yaml[k] = cfg[k]
            /\ cfg = cfg_all[args_project]
            /\ cfg_global = cfg_all["global"]

C8_Witness ==
    /\ pc = "ge_config"
    /\ \E k \in DOMAIN cfg \cap DOMAIN cfg_global : cfg[k] # cfg_global[k]
    /\ fs0 = OldProjectDir(args_project)

Assign(variable, value) == variable \o " = \"" \o value \o "\""

\* C9: once generate_terraform_var_files has run, terraform/buckets/
\* <project>.auto.tfvars holds exactly three lines, assigning store_bucket,
\* site_bucket and data_bucket in that order, and terraform/lambda/
\* <project>.auto.tfvars holds the same three lines followed by one image_uri
\* line with "{account_id}.dkr.ecr.{region}.amazonaws.com/{docker_image_name}
\* :latest".
C9_VarFilesContent ==
    pc \in {"provider", "provider_loop", "tutorial"} =>
        LET file == args_project \o ".auto.tfvars"
            buckets == <<args_project, "terraform", "buckets", file>>
            lambda == <<args_project, "terraform", "lambda", file>>
            three == <<Assign("ge-bucket-name     ", Format(cfg["store_bucket"])),
                       Assign("ge-site-bucket-name", Format(cfg["site_bucket"])),
                       Assign("ge-data-bucket-name", Format(cfg["data_bucket"]))>>
            uri == Format(cfg_global["account_id"]) \o ".dkr.ecr."
                       \o Format(cfg_global["region"]) \o ".amazonaws.com/"
                       \o Format(cfg["docker_image_name"]) \o ":latest"
        IN  /\ buckets \in DOMAIN fs /\ lambda \in DOMAIN fs
            /\ fs[buckets] = TextFile(three \o <<"">>)
            /\ fs[lambda] = TextFile(three \o <<Assign("image_uri", uri)>>)

C9_Witness ==
    /\ pc = "provider"
    /\ cfg["store_bucket"] # cfg["site_bucket"]
    /\ cfg["site_bucket"] # cfg["data_bucket"]
    /\ fs0 = OldProjectDir(args_project)

ProviderStepFailed ==
    /\ pc = "failed"
    /\ err.what = "os_error"
    /\ IsPrefix(TfDir, err.keys)
    /\ err.keys[Len(err.keys)] = "provider.tf"

\* C10: once generate_terraform_provider_config has run, every subdirectory
\* of <project>/terraform/ holds a provider.tf with the provider block of the
\* configured region, no provider.tf was written for an entry that is not a
\* subdirectory, and the step raises nothing whatever terraform/ holds.
C10_ProviderInEverySubdirectory ==
    /\ ~ProviderStepFailed
    /\ pc = "tutorial" =>
          \A d \in Listdir(fs, TfDir) :
              IF IsDirAt(fs, TfDir \o <<d>>)
              THEN /\ TfDir \o <<d, "provider.tf">> \in DOMAIN fs
                   /\ fs[TfDir \o <<d, "provider.tf">>] =
                          TextFile(ProviderDocument(cfg_global))
              ELSE TfDir \o <<d, "provider.tf">> \notin DOMAIN fs

(***************************************************************************)
(* The artifacts of a run                                                  *)
(***************************************************************************)
UntilCopied ==
    {"load", "reraise", "check_global", "check_project", "check_exists", "mkdir",
     "copy"}
AfterGeConfig == AfterProjectConfig \ {"ge_config"}
AfterEcrScript == AfterGeConfig \ {"ecr_script"}
AfterVarFiles == AfterEcrScript \ {"var_files"}
AfterProvider == AfterVarFiles \ {"provider", "provider_loop"}

Holds(path, entry) == path \in DOMAIN fs /\ fs[path] = entry

\* the file of bootstrap_files/tutorial_files/ that the copy loops of
\* adjust_for_tutorial put at path, or <<>> when they put nothing there
TutorialSource(path) ==
    IF args_project = "tutorial" /\ Len(path) = 4 /\ IsPrefix(TfDir, path)
    THEN IF path[3] = "buckets"
         THEN TutorialFiles \o <<"terraform", "tutorial_bucket", path[4]>>
         ELSE IF path[3] = "lambda"
         THEN TutorialFiles \o <<"terraform", "tutorial_lambda", path[4]>>
         ELSE <<>>
    ELSE <<>>

\* path holds entry, the content rendered in this run, except where the
\* tutorial holds a file of the same name: that file's content replaces it
\* when the overlay runs
HoldsUnlessTutorial(path, entry) ==
    IF TutorialSource(path) \in DOMAIN bootstrap
    THEN /\ path \in DOMAIN fs
         /\ pc \notin {"tutorial_buckets", "tutorial_lambda", "done"} =>
               fs[path] = entry
         /\ pc \in {"tutorial_buckets", "tutorial_lambda"} =>
               fs[path] \in {entry, bootstrap[TutorialSource(path)]}
         /\ pc = "done" => fs[path] = bootstrap[TutorialSource(path)]
    ELSE Holds(path, entry)

\* nothing is written before the template tree is copied; project_config.yml,
\* great_expectations.yml and the build script hold this run's content from
\* their step on
CopyFirstAndPlainArtifacts ==
    /\ pc \in UntilCopied => fs \in {fs0, Mkdir(fs0, ProjectDir)}
    /\ pc \in AfterProjectConfig =>
          Holds(ProjectDir \o <<"project_config.yml">>,
                YamlFile(ProjectConfigDocument(cfg, cfg_global)))
    /\ pc \in AfterGeConfig =>
          \E uuid \in UUIDs :
              Holds(ProjectDir \o <<"great_expectations", "great_expectations.yml">>,
                    TextFile(GeBaseYaml(cfg, uuid)))
    /\ pc \in AfterEcrScript =>
          Holds(ProjectDir \o <<"build_image_store_on_ecr.sh">>,
                TextFile(EcrDocument(cfg, cfg_global)))

\* no file the project directory held before the run is still there
NothingOldSurvives ==
    pc = "done" =>
        \A p \in DOMAIN fs0 \cap DOMAIN fs :
            fs0[p].kind = "file" => fs[p] # fs0[p]

\* C11 as stated: the template tree is copied before any artifact is
\* written and no later step removes or replaces an artifact: from its step
\* on, through the tutorial overlay to the end of a successful run,
\* project_config.yml, great_expectations.yml, build_image_store_on_ecr.sh,
\* both .auto.tfvars files and the provider.tf of every Terraform directory
\* hold the content rendered in this run, and at the end no file of the
\* project directory's previous contents is left.
C11_ArtifactsOfThisRun ==
    /\ CopyFirstAndPlainArtifacts
    /\ pc \in AfterVarFiles =>
          /\ Holds(PathsOut(args_project)[1], TextFile(DocumentBuckets(cfg)))
          /\ Holds(PathsOut(args_project)[2],
                   TextFile(DocumentLambda(cfg, cfg_global)))
    /\ pc \in AfterProvider =>
          \A d \in Listdir(fs, TfDir) :
              Holds(TfDir \o <<d, "provider.tf">>,
                    TextFile(ProviderDocument(cfg_global)))
    /\ NothingOldSurvives

\* C11 as amended: the same, except that in tutorial mode a file of
\* tutorial_bucket/ or tutorial_lambda/ that bears the name of an
\* .auto.tfvars file or of provider.tf replaces it in terraform/buckets/ or
\* terraform/lambda/: at the end of the run that artifact exists with the
\* tutorial file's content, not the content rendered in this run.
C11_ArtifactsUnlessTutorialReplaces ==
    /\ CopyFirstAndPlainArtifacts
    /\ pc \in AfterVarFiles =>
          /\ HoldsUnlessTutorial(PathsOut(args_project)[1],
                                 TextFile(DocumentBuckets(cfg)))
          /\ HoldsUnlessTutorial(PathsOut(args_project)[2],
                                 TextFile(DocumentLambda(cfg, cfg_global)))
    /\ pc \in AfterProvider =>
          \A d \in Listdir(fs, TfDir) :
              HoldsUnlessTutorial(TfDir \o <<d, "provider.tf">>,
                                  TextFile(ProviderDocument(cfg_global)))
    /\ NothingOldSurvives

C11_Witness ==
    /\ pc = "done"
    /\ args_project = "tutorial"
    /\ fs0 = OldProjectDir(args_project)
    /\ prompted = 1 /\ AnsweredYes
    /\ TutorialSource(TfDir \o <<"buckets", "provider.tf">>) \in DOMAIN bootstrap
    /\ fs[TfDir \o <<"buckets", "provider.tf">>] =
          TextFile(<<"tutorial provider", "">>)
    /\ Holds(TfDir \o <<"lambda", "provider.tf">>,
             TextFile(ProviderDocument(cfg_global)))

====
